---- MODULE Spec2Model ----
(***************************************************************************)
(* Model of agent.py: the text loader, the memory gatherer, the completion *)
(* client, the reflection composer, the pipeline run_agent_with_reflection *)
(* and the interactive loop main.                                          *)
(*                                                                         *)
(* A Python str is a sequence of one-character strings.  A Python value    *)
(* that may be None is a record: [type |-> "str", val |-> s] or            *)
(* [type |-> "NoneType"].                                                  *)
(***************************************************************************)
EXTENDS Integers, Sequences, FiniteSets, TLC

VARIABLES
    files,          \* the working directory: path -> text, for the paths that exist
    environ,        \* the process environment after load_dotenv(): name -> str
    stdin_eof,      \* the input stream is exhausted
    entry,          \* "main": the interactive loop; "call": a programmatic caller of
                    \* run_agent_with_reflection; "gather": a caller of gather_memory
    pc,             \* the line the program is at
    user_input,     \* main: the line read in this iteration
    invocations,    \* main: calls of run_agent_with_reflection made for user_input
    event,          \* main: what the last iteration step was
    failed_before,  \* main: an earlier turn ended in the except Exception handler
    stdout,         \* main: the strings printed since the top of the iteration
    user_query,     \* run_agent_with_reflection: argument
    api_key,        \* run_agent_with_reflection: argument (str or None)
    run,            \* the state of the latest call of run_agent_with_reflection
    locals,         \* run_agent_with_reflection: its local variables
    trace,          \* the file loads and completion calls of the latest run, in order
    outcome,        \* what the latest run gave its caller: a return value or an exception
    layers_needed,  \* gather_memory: argument (entry "gather")
    gathered        \* gather_memory: return value (entry "gather")

vars ==
    << files, environ, stdin_eof, entry, pc, user_input, invocations, event,
       failed_before, stdout, user_query, api_key, run, locals, trace, outcome,
       layers_needed, gathered >>

----------------------------------------------------------------------------
(* Python values *)

PyNone == [type |-> "NoneType"]

PyStr(s) == [type |-> "str", val |-> s]

\* bool(v) of a str or None
Truthy(v) == v.type = "str" /\ v.val # <<>>

NoneText == <<"N","o","n","e">>

\* str(v), and what an f-string or print makes of v
Format(v) == IF v.type = "NoneType" THEN NoneText ELSE v.val

UpperCase == <<"A","B","C","D","E","F","G","H","I","J","K","L","M","N","O","P","Q","R","S","T","U","V","W","X","Y","Z">>

LowerCase == <<"a","b","c","d","e","f","g","h","i","j","k","l","m","n","o","p","q","r","s","t","u","v","w","x","y","z">>

LowerChar(c) ==
    IF \E i \in 1..Len(UpperCase) : UpperCase[i] = c
    THEN LowerCase[CHOOSE i \in 1..Len(UpperCase) : UpperCase[i] = c]
    ELSE c

\* str.lower()
Lower(s) == [i \in 1..Len(s) |-> LowerChar(s[i])]

\* sub in s
Contains(s, sub) ==
    \E i \in 0..(Len(s) - Len(sub)) : SubSeq(s, i + 1, i + Len(sub)) = sub

\* s.startswith(prefix)
StartsWith(s, prefix) ==
    Len(prefix) <= Len(s) /\ SubSeq(s, 1, Len(prefix)) = prefix

Digits == <<"0","1","2","3","4","5","6","7","8","9">>

\* str(n) for a one-digit n
IntStr(n) == <<Digits[n + 1]>>

NL == <<"\n">>

RECURSIVE Join(_, _)
\* sep.join(parts)
Join(sep, parts) ==
    IF parts = <<>> THEN <<>>
    ELSE IF Len(parts) = 1 THEN parts[1]
    ELSE parts[1] \o sep \o Join(sep, Tail(parts))

----------------------------------------------------------------------------
(* Literals of agent.py *)

SystemPromptPath == "prompts/system_prompt.md"

ReflectionPromptPath == "prompts/reflection_prompt.md"

base_dir == "memory"

layer_files ==
    [n \in 1..4 |->
        CASE n = 1 -> "layer_1_logic.md"
          [] n = 2 -> "layer_2_concepts.md"
          [] n = 3 -> "layer_3_important_details.md"
          [] n = 4 -> "layer_4_arbitrary.md"]

\* os.path.join(base_dir, name)
PathJoin(dir, name) ==
    CASE name = "layer_1_logic.md" -> "memory/layer_1_logic.md"
      [] name = "layer_2_concepts.md" -> "memory/layer_2_concepts.md"
      [] name = "layer_3_important_details.md" -> "memory/layer_3_important_details.md"
      [] name = "layer_4_arbitrary.md" -> "memory/layer_4_arbitrary.md"

LayerHeaderPre == <<"=","=","="," ","L","a","y","e","r"," ">>

LayerHeaderPost == <<" ","K","n","o","w","l","e","d","g","e"," ","=","=","=">>

ErrorPrefix == <<"E","r","r","o","r",":"," ">>

RelevantMemory == <<"R","e","l","e","v","a","n","t"," ","m","e","m","o","r","y",":","\n">>

SolutionSeparator == <<"\n","\n","S","o","l","u","t","i","o","n"," ","t","o"," ","a","n","a","l","y","z","e",":","\n">>

ReviewerRole == <<"Y","o","u"," ","a","r","e"," ","a"," ","c","o","d","e"," ","r","e","v","i","e","w"," ","a","s","s","i","s","t","a","n","t"," ","p","e","r","f","o","r","m","i","n","g"," ","a"," ","r","e","f","l","e","c","t","i","o","n"," ","a","n","a","l","y","s","i","s",".">>

\* The fallback template of generate_reflection_prompt, kept as one chunk of text.
FallbackReflectionPrompt ==
    <<"\n        Analyze the solution provided across each layer:\n        1. Logic Layer: Was the high-level approach sound?\n        2. Concepts Layer: Were relevant patterns/principles applied?\n        3. Important Details Layer: Were crucial implementation details included?\n        4. Arbitrary Layer: Were edge cases considered appropriately?\n\n        Summarize:\n        1. Key strengths\n        2. Areas for improvement\n        3. Additional context needed (if any)\n        ">>

KeyMissingMsg == <<"O","p","e","n","A","I"," ","A","P","I"," ","k","e","y"," ","m","u","s","t"," ","b","e"," ","p","r","o","v","i","d","e","d"," ","o","r"," ","s","e","t"," ","i","n"," ","O","P","E","N","A","I","_","A","P","I","_","K","E","Y"," ","e","n","v","i","r","o","n","m","e","n","t"," ","v","a","r","i","a","b","l","e">>

PromptMissingMsg == <<"S","y","s","t","e","m"," ","p","r","o","m","p","t"," ","f","i","l","e"," ","n","o","t"," ","f","o","u","n","d">>

trigger_keywords ==
    << <<"l","e","g","a","c","y">>,
       <<"o","l","d"," ","v","e","r","s","i","o","n">>,
       <<"d","e","p","r","e","c","a","t","e","d">>,
       <<"e","d","g","e"," ","c","a","s","e">> >>

exit_words ==
    { <<"e","x","i","t">>, <<"q","u","i","t">> }

AskText == <<"\n","E","n","t","e","r"," ","y","o","u","r"," ","q","u","e","s","t","i","o","n",":">>

ResponseBanner == <<"\n","=","=","="," ","A","g","e","n","t","'","s"," ","R","e","s","p","o","n","s","e"," ","=","=","=">>

ReflectionBanner == <<"\n","=","=","="," ","R","e","f","l","e","c","t","i","o","n"," ","A","n","a","l","y","s","i","s"," ","=","=","=">>

ExitingText == <<"\n","E","x","i","t","i","n","g",".",".",".">>

NLErrorPrefix == <<"\n","E","r","r","o","r",":"," ">>

DefaultModel == "gpt-4"

Temperature == "0.3"

----------------------------------------------------------------------------
(* What the libraries the program calls do *)

\* str(e) of the EOFError input() raises at end of input
EOFMsg == <<"E","O","F"," ","w","h","e","n"," ","r","e","a","d","i","n","g"," ","a"," ","l","i","n","e">>

\* str(e) of the IndexError of choices[0] on an empty list
IndexErrorMsg == <<"l","i","s","t"," ","i","n","d","e","x"," ","o","u","t"," ","o","f"," ","r","a","n","g","e">>

\* str(e) of the OpenAIError of a client built with no key
ClientKeyMsg == <<"T","h","e"," ","a","p","i","_","k","e","y"," ","c","l","i","e","n","t"," ","o","p","t","i","o","n"," ","m","u","s","t"," ","b","e"," ","s","e","t">>

----------------------------------------------------------------------------
(* The inputs the model draws from *)

MaxLen == 3

LayerIds == 0..5

RECURSIVE SeqsUpTo(_, _)
SeqsUpTo(S, n) ==
    IF n = 0 THEN {<<>>}
    ELSE LET shorter == SeqsUpTo(S, n - 1)
         IN  shorter \cup {Append(s, x) : s \in {t \in shorter : Len(t) = n - 1}, x \in S}

LayerLists == SeqsUpTo(LayerIds, MaxLen)

Queries ==
    { <<>>,
      <<"h","i">>,
      <<"L","e","g","a","c","y">>,
      <<"L","E","G","A","C","Y">>,
      <<"a"," ","l","e","g","a","c","y"," ","b">>,
      <<"l","e","g","a","c">>,
      <<"e","d","g","e"," ","c","a","s","e">>,
      <<"E","d","g","e"," ","C","a","s","e","?">>,
      <<"e","d","g","e","c","a","s","e">>,
      <<"o","l","d"," ","v","e","r","s","i","o","n">>,
      <<"O","L","D"," ","V","E","R","S","I","O","N">>,
      <<"o","l","d","v","e","r","s","i","o","n">>,
      <<"D","e","p","r","e","c","a","t","e","d","!">>,
      <<"e","x","i","t","s">>,
      <<" ","e","x","i","t">> }

ExitLines ==
    { <<"e","x","i","t">>,
      <<"E","X","I","T">>,
      <<"q","u","i","t">>,
      <<"q","U","i","T">> }

Lines == Queries \cup ExitLines

\* the text of layer n's file
LayerText(n) == <<"m", Digits[n + 1]>>

MemPath(n) == PathJoin(base_dir, layer_files[n])

LayerOfPath(p) == CHOOSE n \in 1..4 : MemPath(n) = p

\* the memory directory in which layer n's file is absent, empty, holds its text,
\* or holds its text as a line, with the newline at its end
MemoryDir(kind) ==
    [p \in {MemPath(n) : n \in {m \in 1..4 : kind[m] # "absent"}} |->
        CASE kind[LayerOfPath(p)] = "text" -> LayerText(LayerOfPath(p))
          [] kind[LayerOfPath(p)] = "line" -> LayerText(LayerOfPath(p)) \o NL
          [] OTHER -> <<>>]

AllMemoryDirs ==
    {MemoryDir(kind) : kind \in [1..4 -> {"absent", "empty", "text", "line"}]}

EmptyDir == [p \in {} |-> <<>>]

PipelineMemoryKinds ==
    { <<"absent", "absent", "absent", "absent">>,
      <<"text", "empty", "absent", "line">>,
      <<"line", "text", "line", "absent">>,
      <<"text", "text", "text", "text">> }

SystemPromptText == <<"S","P">>

ReflectionTemplateText == <<"R","T">>

PromptDirs ==
    { sp @@ rp :
        sp \in { EmptyDir,
                 [p \in {SystemPromptPath} |-> <<>>],
                 [p \in {SystemPromptPath} |-> SystemPromptText] },
        rp \in { EmptyDir,
                 [p \in {ReflectionPromptPath} |-> ReflectionTemplateText] } }

PipelineDirs == {MemoryDir(kind) @@ pd : kind \in PipelineMemoryKinds, pd \in PromptDirs}

Environs ==
    { [n \in {} |-> <<>>],
      [n \in {"OPENAI_API_KEY"} |-> <<>>],
      [n \in {"OPENAI_API_KEY"} |-> <<"k","2">>] }

ApiKeys == {PyNone, PyStr(<<>>), PyStr(<<"k","1">>)}

\* what the remote API answers to a request: a list of choices, each with its
\* message content (a str or None), or an error the client library raises
Responses ==
    { [kind |-> "choices", choices |-> <<PyStr(<<"U","s","e"," ","i","t",".">>)>>],
      [kind |-> "choices", choices |-> <<PyNone>>],
      [kind |-> "choices", choices |-> <<>>],
      [kind |-> "error", msg |-> <<"C","o","n","n","e","c","t","i","o","n"," ","e","r","r","o","r",".">>] }

NoResponse == [kind |-> "none"]

----------------------------------------------------------------------------
(* The functions of agent.py *)

load_text_file(file_path) ==
    IF file_path \notin DOMAIN files THEN <<>> ELSE files[file_path]

\* one block of gather_memory's memory_content
memory_block(layer, content) ==
    LayerHeaderPre \o IntStr(layer) \o LayerHeaderPost \o NL \o content \o NL

RECURSIVE gather_loop(_, _)
\* the for loop of gather_memory over the layers left, memory_content so far
gather_loop(layers, memory_content) ==
    IF layers = <<>> THEN memory_content
    ELSE LET layer == Head(layers)
         IN  IF layer \in DOMAIN layer_files
             THEN LET content == load_text_file(PathJoin(base_dir, layer_files[layer]))
                  IN  IF content # <<>>
                      THEN gather_loop(Tail(layers),
                                       Append(memory_content, memory_block(layer, content)))
                      ELSE gather_loop(Tail(layers), memory_content)
             ELSE gather_loop(Tail(layers), memory_content)

RECURSIVE gather_loop_keep_empty(_, _)
\* the loop without the test of line 40
gather_loop_keep_empty(layers, memory_content) ==
    IF layers = <<>> THEN memory_content
    ELSE LET layer == Head(layers)
         IN  IF layer \in DOMAIN layer_files
             THEN gather_loop_keep_empty(
                      Tail(layers),
                      Append(memory_content,
                             memory_block(layer, load_text_file(
                                 PathJoin(base_dir, layer_files[layer])))))
             ELSE gather_loop_keep_empty(Tail(layers), memory_content)

\* gather_memory appending a block for an empty or absent file too
gather_memory_keep_empty(layers) == Join(NL, gather_loop_keep_empty(layers, <<>>))

gather_memory(layers) == Join(NL, gather_loop(layers, <<>>))

IsLayer(layer) == layer \in DOMAIN layer_files

LoadEvent(path) == [op |-> "load", path |-> path]

\* the files gather_memory loads, in order
gather_loads(layers) ==
    LET known == SelectSeq(layers, IsLayer)
    IN  [i \in 1..Len(known) |-> LoadEvent(PathJoin(base_dir, layer_files[known[i]]))]

\* os.getenv(name)
getenv(name) == IF name \in DOMAIN environ THEN PyStr(environ[name]) ELSE PyNone

\* openai.OpenAI(): the client takes its key from OPENAI_API_KEY of the environment
\* env and raises when the variable is not set
openai_OpenAI(env) ==
    IF "OPENAI_API_KEY" \in DOMAIN env
    THEN [ok |-> TRUE, api_key |-> env["OPENAI_API_KEY"]]
    ELSE [ok |-> FALSE, msg |-> ClientKeyMsg]

\* the value get_completion returns when the client construction gave client and
\* the remote answered response
get_completion(messages, model, client, response) ==
    IF ~client.ok THEN PyStr(ErrorPrefix \o client.msg)
    ELSE IF response.kind = "error" THEN PyStr(ErrorPrefix \o response.msg)
    ELSE IF response.choices = <<>> THEN PyStr(ErrorPrefix \o IndexErrorMsg)
    ELSE response.choices[1]

\* the record of one call of get_completion
CompletionEvent(messages, model, client, response) ==
    [op |-> "completion", messages |-> messages, model |-> model,
     temperature |-> Temperature, client |-> client, response |-> response,
     returned |-> get_completion(messages, model, client, response)]

\* the answers a call can get: none when no client could be built
ResponsesFor(client) == IF client.ok THEN Responses ELSE {NoResponse}

\* generate_reflection_prompt leaving the solution out of the prompt
generate_reflection_prompt_without_solution(solution) ==
    LET loaded == load_text_file(ReflectionPromptPath)
        reflection_prompt == IF loaded = <<>> THEN FallbackReflectionPrompt ELSE loaded
    IN  reflection_prompt \o SolutionSeparator

generate_reflection_prompt(solution) ==
    LET loaded == load_text_file(ReflectionPromptPath)
        reflection_prompt == IF loaded = <<>> THEN FallbackReflectionPrompt ELSE loaded
    IN  reflection_prompt \o SolutionSeparator \o Format(solution)

\* the keyword test on the query as typed, without lower()
select_layers_case_sensitive(query) ==
    IF \E i \in 1..Len(trigger_keywords) : Contains(query, trigger_keywords[i])
    THEN <<1, 2, 3, 4>>
    ELSE <<1, 2, 3>>

\* lines 117-119 of run_agent_with_reflection
select_layers(query) ==
    IF \E i \in 1..Len(trigger_keywords) : Contains(Lower(query), trigger_keywords[i])
    THEN <<1, 2, 3, 4>>
    ELSE <<1, 2, 3>>

Message(role, content) == [role |-> role, content |-> content]

\* the messages with the memory message left out when the memory is empty
initial_messages_skip_empty_memory(system_prompt, memory_snippets, query) ==
    IF memory_snippets = <<>>
    THEN << [role |-> "system", content |-> system_prompt],
            [role |-> "user", content |-> query] >>
    ELSE << [role |-> "system", content |-> system_prompt],
            [role |-> "system", content |-> RelevantMemory \o memory_snippets],
            [role |-> "user", content |-> query] >>

\* lines 124-128
initial_messages(system_prompt, memory_snippets, query) ==
    << Message("system", system_prompt),
       Message("system", RelevantMemory \o memory_snippets),
       Message("user", query) >>

\* lines 134-137
build_reflection_messages(reflection_prompt) ==
    << Message("system", ReviewerRole),
       Message("user", reflection_prompt) >>

\* the exit test on the line as typed, without lower()
is_exit_case_sensitive(line) == line \in exit_words

\* line 153
is_exit(line) == Lower(line) \in exit_words

----------------------------------------------------------------------------
(* State *)

NoLocals ==
    [api_key_to_use |-> PyNone, system_prompt |-> <<>>, layers_to_load |-> <<>>,
     memory_snippets |-> <<>>, messages |-> <<>>, initial_response |-> PyNone,
     reflection_messages |-> <<>>, reflection |-> PyNone]

NoOutcome == [kind |-> "none"]

RunPcs == {"l107", "l112", "l117", "l130", "l133", "l139", "l141"}

IsCompletion(e) == e.op = "completion"

\* the completion calls of the latest run, in order
Requests == SelectSeq(trace, IsCompletion)

\* the state of the interactive loop
Mode == IF pc = "terminated" THEN "Terminated" ELSE "Prompting"

InitCommon ==
    /\ stdin_eof = FALSE
    /\ user_input = <<>>
    /\ invocations = 0
    /\ event = "start"
    /\ failed_before = FALSE
    /\ stdout = <<>>
    /\ user_query = <<>>
    /\ api_key = PyNone
    /\ run = "none"
    /\ locals = NoLocals
    /\ trace = <<>>
    /\ outcome = NoOutcome
    /\ gathered = <<>>

Init ==
    /\ files \in PipelineDirs
    /\ environ \in Environs
    /\ entry \in {"main", "call"}
    /\ pc = IF entry = "main" THEN "input" ELSE "idle"
    /\ layers_needed = <<>>
    /\ InitCommon

InitGather ==
    /\ files \in AllMemoryDirs
    /\ environ = [n \in {} |-> <<>>]
    /\ entry = "gather"
    /\ pc = "gather_call"
    /\ layers_needed \in LayerLists
    /\ InitCommon

----------------------------------------------------------------------------
(* main: the handlers of the try statement *)

\* a handler that prints the error and leaves the loop
main_except_Exception_break(printed, msg) ==
    /\ stdout' = Append(printed, NLErrorPrefix \o msg)
    /\ event' = "error"
    /\ failed_before' = TRUE
    /\ pc' = "terminated"

\* lines 166-167: except Exception, with printed the output of the iteration so far
main_except_Exception(printed, msg) ==
    /\ stdout' = Append(printed, NLErrorPrefix \o msg)
    /\ event' = "error"
    /\ failed_before' = TRUE
    /\ pc' = "input"

\* lines 163-165: except KeyboardInterrupt
main_except_KeyboardInterrupt(printed) ==
    /\ stdout' = Append(printed, ExitingText)
    /\ event' = "interrupt"
    /\ pc' = "terminated"
    /\ UNCHANGED failed_before

\* an exception leaves run_agent_with_reflection: main catches it, another caller
\* receives it
Raise(exc, msg) ==
    /\ run' = "raised"
    /\ outcome' = [kind |-> "raise", exc |-> exc, msg |-> msg]
    /\ locals' = NoLocals
    /\ IF entry = "main"
       THEN main_except_Exception(stdout, msg)
       ELSE pc' = "idle" /\ UNCHANGED <<stdout, event, failed_before>>

\* the call of run_agent_with_reflection(query, key)
StartRun(query, key) ==
    /\ user_query' = query
    /\ api_key' = key
    /\ run' = "running"
    /\ locals' = NoLocals
    /\ trace' = <<>>
    /\ outcome' = NoOutcome
    /\ pc' = "l107"

----------------------------------------------------------------------------
(* run_agent_with_reflection, line by line *)

\* the run going on without the test of line 108
run_check_api_key_unchecked ==
    /\ pc = "l107"
    /\ locals' = [locals EXCEPT !.api_key_to_use =
                     IF Truthy(api_key) THEN api_key ELSE getenv("OPENAI_API_KEY")]
    /\ pc' = "l112"
    /\ UNCHANGED <<files, environ, stdin_eof, entry, user_input, invocations, event,
                   failed_before, stdout, user_query, api_key, run, trace, outcome,
                   layers_needed, gathered>>

\* lines 107-109: the key check
run_check_api_key ==
    /\ pc = "l107"
    /\ LET api_key_to_use == IF Truthy(api_key) THEN api_key ELSE getenv("OPENAI_API_KEY")
       IN  IF ~Truthy(api_key_to_use)
           THEN /\ Raise("ValueError", KeyMissingMsg)
                /\ UNCHANGED trace
           ELSE /\ locals' = [locals EXCEPT !.api_key_to_use = api_key_to_use]
                /\ pc' = "l112"
                /\ UNCHANGED <<run, outcome, trace, stdout, event, failed_before>>
    /\ UNCHANGED <<files, environ, stdin_eof, entry, user_input, invocations,
                   user_query, api_key, layers_needed, gathered>>

\* lines 112-114: the system prompt
run_load_system_prompt ==
    /\ pc = "l112"
    /\ trace' = Append(trace, LoadEvent(SystemPromptPath))
    /\ LET system_prompt == load_text_file(SystemPromptPath)
       IN  IF system_prompt = <<>>
           THEN Raise("FileNotFoundError", PromptMissingMsg)
           ELSE /\ locals' = [locals EXCEPT !.system_prompt = system_prompt]
                /\ pc' = "l117"
                /\ UNCHANGED <<run, outcome, stdout, event, failed_before>>
    /\ UNCHANGED <<files, environ, stdin_eof, entry, user_input, invocations,
                   user_query, api_key, layers_needed, gathered>>

\* lines 117-128: the layers, the memory and the messages of the first request
run_gather_and_compose ==
    /\ pc = "l117"
    /\ LET layers_to_load == select_layers(user_query)
           memory_snippets == gather_memory(layers_to_load)
       IN  /\ trace' = trace \o gather_loads(layers_to_load)
           /\ locals' = [locals EXCEPT
                            !.layers_to_load = layers_to_load,
                            !.memory_snippets = memory_snippets,
                            !.messages = initial_messages(locals.system_prompt,
                                                          memory_snippets, user_query)]
    /\ pc' = "l130"
    /\ UNCHANGED <<files, environ, stdin_eof, entry, user_input, invocations, event,
                   failed_before, stdout, user_query, api_key, run, outcome,
                   layers_needed, gathered>>

\* line 130: the first call of get_completion
run_initial_completion ==
    /\ pc = "l130"
    /\ LET client == openai_OpenAI(environ)
       IN  \E response \in ResponsesFor(client) :
             LET call == CompletionEvent(locals.messages, DefaultModel, client, response)
             IN  /\ trace' = Append(trace, call)
                 /\ locals' = [locals EXCEPT !.initial_response = call.returned]
    /\ pc' = "l133"
    /\ UNCHANGED <<files, environ, stdin_eof, entry, user_input, invocations, event,
                   failed_before, stdout, user_query, api_key, run, outcome,
                   layers_needed, gathered>>

\* lines 133-137: the reflection prompt and its messages
run_compose_reflection ==
    /\ pc = "l133"
    /\ trace' = Append(trace, LoadEvent(ReflectionPromptPath))
    /\ locals' = [locals EXCEPT !.reflection_messages =
                     build_reflection_messages(
                         generate_reflection_prompt(locals.initial_response))]
    /\ pc' = "l139"
    /\ UNCHANGED <<files, environ, stdin_eof, entry, user_input, invocations, event,
                   failed_before, stdout, user_query, api_key, run, outcome,
                   layers_needed, gathered>>

\* line 139: the second call of get_completion
run_reflection_completion ==
    /\ pc = "l139"
    /\ LET client == openai_OpenAI(environ)
       IN  \E response \in ResponsesFor(client) :
             LET call == CompletionEvent(locals.reflection_messages, DefaultModel,
                                         client, response)
             IN  /\ trace' = Append(trace, call)
                 /\ locals' = [locals EXCEPT !.reflection = call.returned]
    /\ pc' = "l141"
    /\ UNCHANGED <<files, environ, stdin_eof, entry, user_input, invocations, event,
                   failed_before, stdout, user_query, api_key, run, outcome,
                   layers_needed, gathered>>

\* line 141, and in main lines 156-161: the pair is returned and printed
run_return ==
    /\ pc = "l141"
    /\ run' = "returned"
    /\ outcome' = [kind |-> "return",
                   value |-> <<locals.initial_response, locals.reflection>>]
    /\ locals' = NoLocals
    /\ IF entry = "main"
       THEN /\ stdout' = stdout \o << ResponseBanner, Format(locals.initial_response),
                                      ReflectionBanner, Format(locals.reflection) >>
            /\ event' = "ok"
            /\ pc' = "input"
       ELSE /\ pc' = "idle"
            /\ UNCHANGED <<stdout, event>>
    /\ UNCHANGED <<files, environ, stdin_eof, entry, user_input, invocations,
                   failed_before, user_query, api_key, trace, layers_needed, gathered>>

----------------------------------------------------------------------------
(* main: the loop of lines 149-167 *)

\* lines 151-156: a line is read; exit and quit break, any other line is the query
main_input ==
    /\ entry = "main"
    /\ pc = "input"
    /\ ~stdin_eof
    /\ \E line \in Lines :
         /\ user_input' = line
         /\ stdout' = <<AskText>>
         /\ IF is_exit(line)
            THEN /\ pc' = "terminated"
                 /\ event' = "exit"
                 /\ invocations' = 0
                 /\ UNCHANGED <<user_query, api_key, run, locals, trace, outcome>>
            ELSE /\ StartRun(line, PyNone)
                 /\ event' = "query"
                 /\ invocations' = 1
    /\ UNCHANGED <<files, environ, stdin_eof, entry, failed_before, layers_needed,
                   gathered>>

\* the end of the input ending the loop
main_input_eof_break ==
    /\ entry = "main"
    /\ pc = "input"
    /\ stdin_eof' = TRUE
    /\ stdout' = <<AskText>>
    /\ event' = "eof"
    /\ pc' = "terminated"
    /\ UNCHANGED <<files, environ, entry, user_input, invocations, failed_before,
                   user_query, api_key, run, locals, trace, outcome, layers_needed,
                   gathered>>

\* line 152 at the end of the input: input() raises EOFError, an Exception
main_input_eof ==
    /\ entry = "main"
    /\ pc = "input"
    /\ stdin_eof' = TRUE
    /\ main_except_Exception(<<AskText>>, EOFMsg)
    /\ UNCHANGED <<files, environ, entry, user_input, invocations, user_query, api_key,
                   run, locals, trace, outcome, layers_needed, gathered>>

\* Ctrl+C: KeyboardInterrupt is raised where the program is; it is no Exception,
\* so neither get_completion nor the except Exception of main catches it
KeyboardInterrupt ==
    /\ \/ entry = "main" /\ pc \in RunPcs \cup {"input"}
       \/ entry = "call" /\ pc \in RunPcs
    /\ locals' = NoLocals
    /\ run' = IF pc \in RunPcs THEN "interrupted" ELSE run
    /\ IF entry = "main"
       THEN /\ main_except_KeyboardInterrupt(IF pc = "input" THEN <<AskText>> ELSE stdout)
            /\ UNCHANGED outcome
       ELSE /\ pc' = "idle"
            /\ outcome' = [kind |-> "raise", exc |-> "KeyboardInterrupt", msg |-> <<>>]
            /\ UNCHANGED <<stdout, event, failed_before>>
    /\ UNCHANGED <<files, environ, stdin_eof, entry, user_input, invocations,
                   user_query, api_key, trace, layers_needed, gathered>>

\* a program that imports agent.py calls run_agent_with_reflection(query, key)
call_run ==
    /\ entry = "call"
    /\ pc = "idle"
    /\ \E query \in Queries, key \in ApiKeys : StartRun(query, key)
    /\ UNCHANGED <<files, environ, stdin_eof, entry, user_input, invocations, event,
                   failed_before, stdout, layers_needed, gathered>>

\* a program that imports agent.py calls gather_memory(layers_needed)
call_gather_memory ==
    /\ entry = "gather"
    /\ pc = "gather_call"
    /\ gathered' = gather_memory(layers_needed)
    /\ pc' = "gather_done"
    /\ UNCHANGED <<files, environ, stdin_eof, entry, user_input, invocations, event,
                   failed_before, stdout, user_query, api_key, run, locals, trace,
                   outcome, layers_needed>>

Next ==
    \/ main_input
    \/ main_input_eof
    \/ KeyboardInterrupt
    \/ call_run
    \/ run_check_api_key
    \/ run_load_system_prompt
    \/ run_gather_and_compose
    \/ run_initial_completion
    \/ run_compose_reflection
    \/ run_reflection_completion
    \/ run_return

Spec == Init /\ [][Next]_vars

NextGather == call_gather_memory

SpecGather == InitGather /\ [][NextGather]_vars

----------------------------------------------------------------------------
(* Vocabulary of the properties *)

Last(s) == s[Len(s)]

\* a and b are equal up to the case of their letters
CaseInsensitiveEq(a, b) ==
    Len(a) = Len(b) /\ \A i \in 1..Len(a) : LowerChar(a[i]) = LowerChar(b[i])

IsExitLine(line) == \E w \in exit_words : CaseInsensitiveEq(line, w)

\* kw occurs in q at position i, up to the case of q's letters
OccursAt(q, kw, i) ==
    /\ i + Len(kw) - 1 <= Len(q)
    /\ \A j \in 1..Len(kw) : LowerChar(q[i + j - 1]) = kw[j]

HasTrigger(q) ==
    \E k \in 1..Len(trigger_keywords) : \E i \in 1..Len(q) :
        OccursAt(q, trigger_keywords[k], i)

\* the call r of get_completion failed: no client, an error of the request, or a
\* response without a first choice
CallFailed(r) ==
    \/ ~r.client.ok
    \/ r.response.kind = "error"
    \/ r.response.kind = "choices" /\ r.response.choices = <<>>

FailureMsg(r) ==
    IF ~r.client.ok THEN r.client.msg
    ELSE IF r.response.kind = "error" THEN r.response.msg
    ELSE IndexErrorMsg

NoApiKey ==
    /\ api_key.type = "NoneType" \/ api_key.val = <<>>
    /\ "OPENAI_API_KEY" \notin DOMAIN environ \/ environ["OPENAI_API_KEY"] = <<>>

SystemPromptMissing == SystemPromptPath \notin DOMAIN files

HasContent(n) ==
    n \in 1..4 /\ MemPath(n) \in DOMAIN files /\ files[MemPath(n)] # <<>>

\* "=== Layer <n> Knowledge ===" + newline + content
HeaderAndContent(n) ==
    LayerHeaderPre \o <<Digits[n + 1]>> \o LayerHeaderPost \o NL \o files[MemPath(n)]

RECURSIVE BlocksSeparatedByBlankLines(_)
\* the blocks of the layers ns, a blank line between two of them
BlocksSeparatedByBlankLines(ns) ==
    IF ns = <<>> THEN <<>>
    ELSE IF Len(ns) = 1 THEN HeaderAndContent(ns[1])
    ELSE HeaderAndContent(ns[1]) \o NL \o NL \o BlocksSeparatedByBlankLines(Tail(ns))

\* the memory text of the layer list L as the claim C7 states it
MemoryTextAsClaimed(L) == BlocksSeparatedByBlankLines(SelectSeq(L, HasContent))

\* the same, with a newline after the last block
MemoryTextWithNewline(L) ==
    IF SelectSeq(L, HasContent) = <<>> THEN <<>> ELSE MemoryTextAsClaimed(L) \o NL

IsMemoryLoad(e) == e.op = "load" /\ \E n \in 1..4 : e.path = MemPath(n)

\* the layers whose files the latest run loaded, in order
LoadedLayers ==
    LET loads == SelectSeq(trace, IsMemoryLoad)
    IN  [i \in 1..Len(loads) |-> LayerOfPath(loads[i].path)]

\* the events of the latest run that follow its first completion call
RECURSIVE AfterFirstCompletion(_)
AfterFirstCompletion(t) ==
    IF t = <<>> THEN <<>>
    ELSE IF Head(t).op = "completion" THEN Tail(t)
    ELSE AfterFirstCompletion(Tail(t))

ReflectionTemplate ==
    IF ReflectionPromptPath \in DOMAIN files /\ files[ReflectionPromptPath] # <<>>
    THEN files[ReflectionPromptPath]
    ELSE FallbackReflectionPrompt

----------------------------------------------------------------------------
(* Properties *)

\* C1: every call of get_completion gives its caller a string, and a failed call
\* gives a string that starts with "Error: " and contains the failure's message.
C1_CompletionAlwaysString ==
    \A i \in 1..Len(Requests) :
        LET r == Requests[i]
        IN  /\ r.returned.type = "str"
            /\ CallFailed(r) =>
                   /\ StartsWith(r.returned.val, ErrorPrefix)
                   /\ Contains(r.returned.val, FailureMsg(r))

\* C2: a run with a configuration error (no API key from the parameter or the
\* environment, or no system prompt file) makes no completion call at any point
\* and ends with an error to its caller.
C2_NoCompletionOnConfigError ==
    (run # "none" /\ (NoApiKey \/ SystemPromptMissing)) =>
        /\ Requests = <<>>
        /\ run \in {"running", "raised", "interrupted"}
        /\ run = "running" => pc \in {"l107", "l112"}
        /\ run = "raised" =>
               /\ outcome.kind = "raise"
               /\ outcome.exc \in {"ValueError", "FileNotFoundError"}

C2_Witness ==
    /\ run = "raised"
    /\ NoApiKey
    /\ ~SystemPromptMissing
    /\ outcome.exc = "ValueError"
    /\ Requests = <<>>

\* C3: in the interactive loop an error raised during a turn is caught and
\* printed, the loop stays in Prompting and reads the next line.
C3_TurnErrorKeepsPrompting ==
    (entry = "main" /\ event = "error") =>
        /\ pc = "input"
        /\ Mode = "Prompting"
        /\ stdout # <<>>
        /\ Last(stdout) = NLErrorPrefix \o (IF stdin_eof THEN EOFMsg ELSE outcome.msg)
        /\ ENABLED main_input_eof
        /\ ~stdin_eof => ENABLED main_input

\* a turn failed on the system prompt and a later turn runs the pipeline
C3_Witness ==
    /\ entry = "main"
    /\ failed_before
    /\ run = "running"
    /\ pc = "l112"

\* C4: a line read by the loop that equals "exit" or "quit" up to case ends the
\* loop without a pipeline call and nothing is read after it; any other line,
\* the empty one too, calls the pipeline exactly once with that line.
C4_ExitOrOneInvocation ==
    [][ /\ (entry = "main" /\ pc = "input" /\ event' \in {"exit", "query"}) =>
               IF IsExitLine(user_input')
               THEN /\ pc' = "terminated"
                    /\ invocations' = 0
                    /\ run' = run
                    /\ trace' = trace
               ELSE /\ pc' = "l107"
                    /\ invocations' = 1
                    /\ run' = "running"
                    /\ user_query' = user_input'
        /\ (entry = "main" /\ pc # "input") => invocations' = invocations
        /\ pc # "terminated"
      ]_vars

\* the empty line ran the pipeline, then "qUiT" ended the loop
C4_Witness ==
    /\ pc = "terminated"
    /\ event = "exit"
    /\ user_input = <<"q","U","i","T">>
    /\ invocations = 0
    /\ user_query = <<>>
    /\ run = "returned"

\* C5: a run past the configuration checks makes its two completion calls one
\* after the other; the second is [system: reviewer role, user: template +
\* separator + the first call's result], only the reflection template is loaded
\* for it, and the run returns the two results as they came.
C5_TwoSequentialRequests ==
    /\ (run = "running" /\ pc \in {"l107", "l112", "l117", "l130"}) => Len(Requests) = 0
    /\ (run = "running" /\ pc \in {"l133", "l139"}) => Len(Requests) = 1
    /\ run = "interrupted" => Len(Requests) <= 2
    /\ ((run = "running" /\ pc = "l141") \/ run = "returned") =>
           /\ Len(Requests) = 2
           /\ Requests[2].messages =
                  << [role |-> "system", content |-> ReviewerRole],
                     [role |-> "user",
                      content |-> ReflectionTemplate \o SolutionSeparator
                                      \o Format(Requests[1].returned)] >>
           /\ Len(AfterFirstCompletion(trace)) = 2
           /\ AfterFirstCompletion(trace)[1] = [op |-> "load", path |-> ReflectionPromptPath]
           /\ AfterFirstCompletion(trace)[2] = Requests[2]
    /\ run = "returned" =>
           /\ outcome.kind = "return"
           /\ outcome.value = <<Requests[1].returned, Requests[2].returned>>

\* the first call failed and its "Error: ..." string went into the reflection
C5_Witness ==
    /\ run = "returned"
    /\ Len(Requests) = 2
    /\ Requests[1].response.kind = "error"
    /\ StartsWith(outcome.value[1].val, ErrorPrefix)
    /\ Requests[2].response.kind = "choices"
    /\ Requests[2].response.choices # <<>>

\* C6: with an API key given as argument the run does not depend on
\* OPENAI_API_KEY: in every environment its calls get the same client, with the
\* same credentials.
C6_ApiKeyOverridesEnvironment ==
    (run # "none" /\ Truthy(api_key)) =>
        \A i \in 1..Len(Requests) : \A env \in Environs :
            openai_OpenAI(env) = Requests[i].client

\* C7 as stated: gather_memory(L) is exactly the blocks header + newline +
\* content of the entries of L in 1..4 whose file exists and is not empty, in
\* the order of L, separated by blank lines.
C7_GatherExactBlocks ==
    pc = "gather_done" => gathered = MemoryTextAsClaimed(layers_needed)

\* C7 as amended: the same blocks in the same order, separated by blank lines,
\* with one newline after the last block; the empty string when there is no block.
C7_GatherBlocksWithNewline ==
    pc = "gather_done" => gathered = MemoryTextWithNewline(layers_needed)

C7_Witness ==
    /\ pc = "gather_done"
    /\ layers_needed = <<4, 5, 1>>
    /\ HasContent(4)
    /\ HasContent(1)
    /\ gathered # <<>>

\* C8: the layers requested from gather_memory are [1,2,3,4] when the query
\* contains a trigger substring up to case, and [1,2,3] otherwise.
C8_LayerSelection ==
    (run = "running" /\ pc \in {"l130", "l133", "l139", "l141"}) =>
        /\ locals.layers_to_load =
               IF HasTrigger(user_query) THEN <<1, 2, 3, 4>> ELSE <<1, 2, 3>>
        /\ LoadedLayers = locals.layers_to_load

C8_Witness ==
    /\ run = "running"
    /\ pc = "l141"
    /\ user_query = <<"E","d","g","e"," ","C","a","s","e","?">>
    /\ locals.layers_to_load = <<1, 2, 3, 4>>

\* C9: the first request of a run is [system: system prompt, system: "Relevant
\* memory:\n" + memory text, user: query], three messages, whatever the memory
\* and the query, the empty ones too.
C9_InitialRequestShape ==
    Len(Requests) >= 1 =>
        Requests[1].messages =
            << [role |-> "system", content |-> files[SystemPromptPath]],
               [role |-> "system",
                content |-> RelevantMemory \o MemoryTextWithNewline(LoadedLayers)],
               [role |-> "user", content |-> user_query] >>

\* no memory and the empty query
C9_Witness ==
    /\ Len(Requests) >= 1
    /\ user_query = <<>>
    /\ Len(Requests[1].messages) = 3
    /\ Requests[1].messages[2].content = RelevantMemory

\* C10: the loop is Terminated only after an exit or quit line or an interrupt;
\* at the end of the input it stays in Prompting and the read is tried again.
C10_TerminatedOnlyByExitOrInterrupt ==
    /\ pc = "terminated" =>
           \/ event = "exit" /\ IsExitLine(user_input)
           \/ event = "interrupt"
    /\ (entry = "main" /\ stdin_eof /\ event # "interrupt") =>
           /\ Mode = "Prompting"
           /\ pc = "input"
           /\ event = "error"
           /\ ENABLED main_input_eof
           /\ ~ENABLED main_input

C10_Witness ==
    /\ entry = "main"
    /\ stdin_eof
    /\ pc = "input"
    /\ Last(stdout) = NLErrorPrefix \o EOFMsg
    /\ run = "returned"
====
